---- MODULE Spec2Model ----
(***************************************************************************)
(* Model of static/app.js, the browser client of http_logger: the feed of *)
(* captured requests (requests, totalCount, loadedCount, selectedId), the *)
(* WebSocket life cycle with its reconnect backoff, cursor pagination     *)
(* (load_more) and the delete / clear commands that await a fetch.        *)
(*                                                                         *)
(* Every handler of app.js runs to completion (one JavaScript task), so   *)
(* each handler is one action.  The two async click handlers suspend at   *)
(* `await fetch(...)`: the part before the await is the Click action, the *)
(* part after it is the Done action, and a rejected fetch is the Fail     *)
(* action.                                                                 *)
(***************************************************************************)
EXTENDS Integers, Sequences, FiniteSets, TLC

\* ---------------------------------------------------------------- bounds
NumIds == 2        \* distinct record ids the server can hold
MaxBatch == 2      \* records in one history message
MaxTotal == 3      \* largest `total` a history message reports
MaxFetch == 1      \* fetch() calls in flight at once, except in SpecServer
MaxOverlap == 2    \* fetch() calls in flight at once, in SpecServer
MaxDebt == 1       \* delete is not clicked once a count is below -MaxDebt + 1
MaxFailures == 1   \* consecutive closures without an open event, except in SpecReconnect
MaxClosures == 7   \* consecutive closures without an open event, in SpecReconnect
MaxParts == 2      \* parts of a multipart body

\* ---------------------------------------------------------------- values
\* null, as selectedId holds it; the ids are 1..NumIds
None == 0

Ids == 1..NumIds

\* CapturedRequestRecord of the wire protocol, reduced to the two fields the
\* feed logic reads.  A record is immutable, so its timestamp is a function of
\* its id; a larger id is a later capture.
Record(i) == [id |-> i, timestamp |-> 10 * i]

Records == {Record(i) : i \in Ids}

RECURSIVE SeqsUpTo(_, _)
SeqsUpTo(S, n) ==
    IF n = 0 THEN {<<>>}
    ELSE LET shorter == SeqsUpTo(S, n - 1)
         IN shorter \cup {Append(s, x) : s \in {t \in shorter : Len(t) = n - 1}, x \in S}

\* {type: "history", requests: [...], total: n}
HistoryMsgs == [requests : SeqsUpTo(Records, MaxBatch), total : 0..MaxTotal]

\* a batch as a paging server builds it: newest first, no record twice
Descending(batch) ==
    \A i \in 1..(Len(batch) - 1) : batch[i].timestamp > batch[i + 1].timestamp

ServerHistoryMsgs ==
    {msg \in HistoryMsgs : Descending(msg.requests) /\ msg.total >= Len(msg.requests)}

\* the answers to {type: "load_more", before: cursor}
PageMsgs(cursor) ==
    {msg \in ServerHistoryMsgs :
        \A i \in 1..Len(msg.requests) : msg.requests[i].timestamp < cursor}

\* the records a {type: "new"} message can carry when the client holds reqs
PushedRecords(reqs) ==
    {req \in Records :
        \/ \E i \in 1..Len(reqs) : reqs[i].id = req.id
        \/ \A i \in 1..Len(reqs) : reqs[i].timestamp < req.timestamp}

Min(a, b) == IF a < b THEN a ELSE b

\* let reconnectDelay = 1000; reconnectDelay = 1000 in ws.onopen
BaseDelay == 1000

\* the cap in Math.min(reconnectDelay * 2, 30000)
DelayCap == 30000

VARIABLES
    requests,        \* let requests = []            (line 2)
    selectedId,      \* let selectedId = null        (line 3)
    totalCount,      \* let totalCount = 0           (line 4)
    loadedCount,     \* let loadedCount = 0          (line 5)
    ws,              \* readyState of the socket held by `ws` (line 6)
    reconnectDelay,  \* let reconnectDelay = 1000    (line 7)
    loading,         \* let loading = false          (line 8)
    reconnectTimer,  \* the delay the pending setTimeout of ws.onclose was armed with, or None
    detailReq,       \* the record the visible detail panel (and its delete button) shows
    pendingDelete,   \* per id: DELETE /api/requests/<id> fetches in flight
    pendingClear,    \* DELETE /api/requests fetches in flight
    initialPending,  \* the server's initial history of this connection is not yet processed
    awaiting,        \* the load_more messages transmitted on this connection and not yet
                     \* answered by the server, oldest first
    closures,        \* consecutive close events since the last open event
    last,            \* the handler that ran last
    serverKept,      \* ids of the records the server created and pushed to this client and
                     \* has certainly not deleted: no delete-all ran and no delete of the
                     \* record was requested since
    parts,           \* renderMultipart: the parts of the body not yet visited by the loop
    html             \* renderMultipart: the blocks appended to `html` so far

vars == <<requests, selectedId, totalCount, loadedCount, ws, reconnectDelay, loading,
          reconnectTimer, detailReq, pendingDelete, pendingClear, initialPending,
          awaiting, closures, last, serverKept, parts, html>>

feed == <<requests, selectedId, totalCount, loadedCount>>
conn == <<ws, reconnectDelay, reconnectTimer, closures>>
wire == <<initialPending, awaiting>>
cmds == <<pendingDelete, pendingClear>>
panel == <<parts, html>>
aside == <<serverKept, parts, html>>

\* ---------------------------------------------------------------- helpers
\* new Set(requests.map(r => r.id))
existingIds(reqs) == {reqs[i].id : i \in 1..Len(reqs)}

\* msg.requests.filter(r => !existingIds.has(r.id))
newReqsKeepAll(reqs, batch) == batch

newReqs(reqs, batch) ==
    LET keep(r) == r.id \notin existingIds(reqs)
    IN SelectSeq(batch, keep)

\* requests.some(r => r.id === req.id)
isKnownNever(reqs, req) == FALSE

isKnown(reqs, req) == \E i \in 1..Len(reqs) : reqs[i].id = req.id

\* requests.unshift(req)
unshiftAtEnd(reqs, req) == Append(reqs, req)

unshift(reqs, req) == <<req>> \o reqs

\* requests.filter(r => r.id !== id)
withoutId(reqs, id) ==
    LET keep(r) == r.id # id
    IN SelectSeq(reqs, keep)

\* const oldest = requests[requests.length - 1]
oldest(reqs) == reqs[Len(reqs)]

\* Math.min(reconnectDelay * 2, 30000)
nextDelayUncapped(d) == d * 2

nextDelay(d) == Min(d * 2, DelayCap)

\* !loading && loadedCount < totalCount   (entries[0].isIntersecting is the event)
observerGuardNoCount(isLoading, loaded, total) == ~isLoading

observerGuard(isLoading, loaded, total) == ~isLoading /\ loaded < total

PendingFetches ==
    LET RECURSIVE Sum(_)
        Sum(S) == IF S = {} THEN 0
                  ELSE LET i == CHOOSE x \in S : TRUE
                       IN pendingDelete[i] + Sum(S \ {i})
    IN Sum(Ids) + pendingClear

\* ---------------------------------------------------------------- Init
Init ==
    /\ requests = <<>>
    /\ selectedId = None
    /\ totalCount = 0
    /\ loadedCount = 0
    /\ ws = "CONNECTING"          \* connect() at the end of the script
    /\ reconnectDelay = BaseDelay
    /\ loading = FALSE
    /\ reconnectTimer = None
    /\ detailReq = None
    /\ pendingDelete = [i \in Ids |-> 0]
    /\ pendingClear = 0
    /\ initialPending = TRUE
    /\ awaiting = <<>>
    /\ closures = 0
    /\ last = "start"
    /\ serverKept = {}
    /\ parts = <<>>
    /\ html = <<>>

\* ---------------------------------------------------------------- WebSocket
\* ws.onopen
OnOpen ==
    /\ ws = "CONNECTING"
    /\ ws' = "OPEN"
    /\ reconnectDelay' = BaseDelay
    /\ closures' = 0
    /\ last' = "-"
    /\ UNCHANGED <<feed, loading, reconnectTimer, detailReq, cmds, wire>>
    /\ UNCHANGED aside

\* ws.onerror = () => ws.close()
OnErrorSchedules(limit) ==
    /\ ws \in {"CONNECTING", "OPEN"}
    /\ closures < limit
    /\ ws' = "CLOSING"
    /\ reconnectTimer' = reconnectDelay
    /\ last' = "-"
    /\ UNCHANGED <<feed, loading, reconnectDelay, closures, detailReq, cmds, wire>>
    /\ UNCHANGED aside

OnError(limit) ==
    /\ ws \in {"CONNECTING", "OPEN"}
    /\ closures < limit
    /\ ws' = "CLOSING"
    /\ last' = "-"
    /\ UNCHANGED <<feed, loading, reconnectDelay, reconnectTimer, closures, detailReq,
                   cmds, wire>>
    /\ UNCHANGED aside

\* ws.onclose: setStatus('reconnecting'); setTimeout(..., reconnectDelay)
OnClose(limit) ==
    /\ ws \in {"CONNECTING", "OPEN", "CLOSING"}
    /\ closures < limit
    /\ ws' = "CLOSED"
    /\ reconnectTimer' = reconnectDelay
    /\ closures' = closures + 1
    /\ awaiting' = <<>>
    /\ initialPending' = FALSE
    /\ last' = "-"
    /\ UNCHANGED <<feed, loading, reconnectDelay, detailReq, cmds>>
    /\ UNCHANGED aside

\* the timer callback of ws.onclose: double the delay, connect()
TimerFireNoConnect ==
    /\ reconnectTimer # None
    /\ reconnectTimer' = None
    /\ reconnectDelay' = nextDelay(reconnectDelay)
    /\ last' = "-"
    /\ UNCHANGED <<feed, loading, ws, closures, detailReq, cmds, wire>>
    /\ UNCHANGED aside

TimerFire ==
    /\ reconnectTimer # None
    /\ reconnectTimer' = None
    /\ reconnectDelay' = nextDelay(reconnectDelay)
    /\ ws' = "CONNECTING"
    /\ initialPending' = TRUE
    /\ last' = "-"
    /\ UNCHANGED <<feed, loading, closures, detailReq, cmds, awaiting>>
    /\ UNCHANGED aside

\* ---------------------------------------------------------------- inbound
\* handleHistory(msg) as a function of the list it finds: what it leaves in
\* requests, totalCount, loadedCount and loading
afterHistoryStillLoading(reqs, msg) ==
    LET merged == reqs \o newReqs(reqs, msg.requests)
    IN [requests |-> merged,
        totalCount |-> msg.total,
        loadedCount |-> Len(merged),
        loading |-> TRUE]

afterHistoryReplace(reqs, msg) ==
    [requests |-> msg.requests,
     totalCount |-> msg.total,
     loadedCount |-> Len(msg.requests),
     loading |-> FALSE]

afterHistory(reqs, msg) ==
    LET merged == reqs \o newReqs(reqs, msg.requests)     \* requests.push(...newReqs)
    IN [requests |-> merged,
        totalCount |-> msg.total,
        loadedCount |-> Len(merged),
        loading |-> FALSE]

\* handleHistory(msg)
handleHistory(msg) ==
    LET after == afterHistory(requests, msg)
    IN /\ totalCount' = after.totalCount
       /\ requests' = after.requests
       /\ loadedCount' = after.loadedCount
       /\ loading' = after.loading
       /\ UNCHANGED selectedId

\* ws.onmessage with the history the server sends when the connection opens
RecvInitialHistory(msg) ==
    /\ ws = "OPEN"
    /\ initialPending
    /\ initialPending' = FALSE
    /\ handleHistory(msg)
    /\ last' = "history"
    /\ UNCHANGED <<conn, detailReq, cmds, awaiting>>
    /\ UNCHANGED aside

\* ws.onmessage with the history that answers a load_more
RecvPageHistory(msg) ==
    /\ ws = "OPEN"
    /\ ~initialPending
    /\ awaiting # <<>>
    /\ awaiting' = Tail(awaiting)
    /\ handleHistory(msg)
    /\ last' = "page"
    /\ UNCHANGED <<conn, detailReq, cmds, initialPending>>
    /\ UNCHANGED aside

\* handleNew(req)
handleNew(req) ==
    IF isKnown(requests, req)
    THEN /\ UNCHANGED <<requests, totalCount, loadedCount>>
         /\ last' = "new_known"
    ELSE /\ requests' = unshift(requests, req)
         /\ totalCount' = totalCount + 1
         /\ loadedCount' = loadedCount + 1
         /\ last' = "new"

\* ws.onmessage with {type: "new", request: req}
RecvNew(req) ==
    /\ ws = "OPEN"
    /\ handleNew(req)
    /\ UNCHANGED <<selectedId, loading, conn, detailReq, cmds, wire>>
    /\ UNCHANGED aside

\* ws.onmessage with data that JSON.parse rejects ("unparsable": the handler
\* throws at line 74) or whose type is neither "history" nor "new"
\* ("unknown_type": no branch of lines 75-79 is taken)
Ignored == {"unparsable", "unknown_type"}

RecvIgnored(kind) ==
    /\ ws = "OPEN"
    /\ last' = kind
    /\ UNCHANGED <<feed, loading, conn, detailReq, cmds, wire>>
    /\ UNCHANGED aside

\* {type: "history", total: n}, a history message without its requests array
HistoryNoRequestsMsgs == [total : 0..MaxTotal]

\* ws.onmessage with such a message: handleHistory assigns totalCount (line
\* 110), then msg.requests.filter throws a TypeError (line 114) and the rest
\* of the handler does not run
RecvHistoryNoRequests(msg) ==
    /\ ws = "OPEN"
    /\ totalCount' = msg.total
    /\ last' = "history_no_requests"
    /\ UNCHANGED <<requests, selectedId, loadedCount, loading, conn, detailReq, cmds, wire>>
    /\ UNCHANGED aside

\* ---------------------------------------------------------------- pagination
\* loadMore(), called by the IntersectionObserver callback
loadMore ==
    IF loading \/ Len(requests) = 0
    THEN /\ UNCHANGED <<loading, wire>>
         /\ last' = "scroll_return"
    ELSE /\ loading' = TRUE
         /\ IF ws = "OPEN"
            THEN /\ awaiting' = Append(awaiting, [type |-> "load_more",
                                                   before |-> oldest(requests).timestamp])
                 /\ last' = "scroll_sent"
                 /\ UNCHANGED initialPending
            ELSE \* CONNECTING: send() throws; CLOSING, CLOSED: send() discards
                 /\ UNCHANGED wire
                 /\ last' = "scroll_unsent"

\* scrollObserver callback with entries[0].isIntersecting
OnIntersect ==
    /\ IF observerGuard(loading, loadedCount, totalCount)
       THEN loadMore
       ELSE /\ UNCHANGED <<loading, wire>>
            /\ last' = "scroll_idle"
    /\ UNCHANGED <<feed, conn, detailReq, cmds>>
    /\ UNCHANGED aside

\* ---------------------------------------------------------------- selection
\* selectRequest(id), the click handler of a list item; renderDetail().
\* The list items of the DOM are the records of `requests` (renderList,
\* appendListItem, prependListItem), so only a present id can be clicked.
selectRequestAny(id) ==
    /\ selectedId' = id
    /\ detailReq' = id
    /\ last' = "-"
    /\ UNCHANGED <<requests, totalCount, loadedCount, loading, conn, cmds, wire>>
    /\ UNCHANGED aside

selectRequest(id) ==
    /\ id \in existingIds(requests)
    /\ selectedId' = id
    /\ detailReq' = id
    /\ last' = "-"
    /\ UNCHANGED <<requests, totalCount, loadedCount, loading, conn, cmds, wire>>
    /\ UNCHANGED aside

\* ---------------------------------------------------------------- commands
\* delete-btn click handler, up to `await fetch`
DeleteClick(limit) ==
    /\ detailReq # None
    /\ PendingFetches < limit
    /\ totalCount > -MaxDebt
    /\ loadedCount > -MaxDebt
    /\ pendingDelete' = [pendingDelete EXCEPT ![detailReq] = @ + 1]
    /\ serverKept' = serverKept \ {detailReq}     \* the server may delete it from now on
    /\ last' = "-"
    /\ UNCHANGED <<feed, loading, conn, detailReq, pendingClear, wire, panel>>

\* delete-btn click handler, after `await fetch` resolved
DeleteDone(id) ==
    /\ pendingDelete[id] > 0
    /\ pendingDelete' = [pendingDelete EXCEPT ![id] = @ - 1]
    /\ requests' = withoutId(requests, id)
    /\ totalCount' = totalCount - 1
    /\ loadedCount' = loadedCount - 1
    /\ selectedId' = None
    /\ detailReq' = None
    /\ last' = "-"
    /\ UNCHANGED <<loading, conn, pendingClear, wire>>
    /\ UNCHANGED aside

\* delete-btn click handler, `await fetch` rejected: the handler ends there
DeleteFail(id) ==
    /\ pendingDelete[id] > 0
    /\ pendingDelete' = [pendingDelete EXCEPT ![id] = @ - 1]
    /\ last' = "fail"
    /\ UNCHANGED <<feed, loading, conn, detailReq, pendingClear, wire>>
    /\ UNCHANGED aside

\* clearBtn click handler, up to `await fetch`
ClearClick(limit) ==
    /\ PendingFetches < limit
    /\ pendingClear' = pendingClear + 1
    /\ serverKept' = {}                           \* the server may delete all from now on
    /\ last' = "-"
    /\ UNCHANGED <<feed, loading, conn, detailReq, pendingDelete, wire, panel>>

\* clearBtn click handler, after `await fetch` resolved
ClearDone ==
    /\ pendingClear > 0
    /\ pendingClear' = pendingClear - 1
    /\ requests' = <<>>
    /\ totalCount' = 0
    /\ loadedCount' = 0
    /\ selectedId' = None
    /\ detailReq' = None
    /\ last' = "-"
    /\ UNCHANGED <<loading, conn, pendingDelete, wire>>
    /\ UNCHANGED aside

\* clearBtn click handler, `await fetch` rejected
ClearFail ==
    /\ pendingClear > 0
    /\ pendingClear' = pendingClear - 1
    /\ last' = "fail"
    /\ UNCHANGED <<feed, loading, conn, detailReq, pendingDelete, wire>>
    /\ UNCHANGED aside

\* ---------------------------------------------------------------- Next
Next ==
    \/ OnOpen
    \/ OnError(MaxFailures)
    \/ OnClose(MaxFailures)
    \/ TimerFire
    \/ \E msg \in HistoryMsgs : RecvInitialHistory(msg)
    \/ \E msg \in HistoryMsgs : RecvPageHistory(msg)
    \/ \E req \in Records : RecvNew(req)
    \/ \E kind \in Ignored : RecvIgnored(kind)
    \/ \E msg \in HistoryNoRequestsMsgs : RecvHistoryNoRequests(msg)
    \/ OnIntersect
    \/ \E id \in Ids : selectRequest(id)
    \/ DeleteClick(MaxFetch)
    \/ \E id \in Ids : DeleteDone(id)
    \/ \E id \in Ids : DeleteFail(id)
    \/ ClearClick(MaxFetch)
    \/ ClearDone
    \/ ClearFail

\* The client with a server that may send any message.
Spec == Init /\ [][Next]_vars

\* the server answers the oldest load_more it has not answered yet
ServerPage ==
    /\ awaiting # <<>>
    /\ \E msg \in PageMsgs(Head(awaiting).before) : RecvPageHistory(msg)

\* the server pushes a record after the initial history of the connection
ServerPush ==
    /\ ~initialPending
    /\ \E req \in PushedRecords(requests) : RecvNew(req)

\* The client with a server that pages backwards: the initial history is the
\* first message of a connection, every batch is newest first without a
\* repeated record, `total` counts at least the records of the batch, the
\* answer to load_more holds only records older than its cursor, and a pushed
\* record is either one the client already holds or newer than all it holds.
NextServer ==
    \/ OnOpen
    \/ OnError(MaxFailures)
    \/ OnClose(MaxFailures)
    \/ TimerFire
    \/ \E msg \in ServerHistoryMsgs : RecvInitialHistory(msg)
    \/ ServerPage
    \/ ServerPush
    \/ OnIntersect
    \/ \E id \in Ids : selectRequest(id)
    \/ DeleteClick(MaxOverlap)
    \/ \E id \in Ids : DeleteDone(id)
    \/ \E id \in Ids : DeleteFail(id)
    \/ ClearClick(MaxOverlap)
    \/ ClearDone
    \/ ClearFail

SpecServer == Init /\ [][NextServer]_vars

\* the server captures a request under a new id after the delete-all of every
\* clear sent so far, and pushes the record; it keeps the record until a
\* delete of it or another delete-all is requested
ServerCreatePush(req) ==
    /\ ws = "OPEN"
    /\ ~initialPending
    /\ req \in PushedRecords(requests)
    /\ ~isKnown(requests, req)
    /\ pendingDelete[req.id] = 0
    /\ handleNew(req)
    /\ serverKept' = serverKept \cup {req.id}
    /\ UNCHANGED <<selectedId, loading, conn, detailReq, cmds, wire, panel>>

\* One connection to a paging server that runs the delete-all of a clear
\* request as soon as the request is sent, while the response is still on
\* its way; one fetch in flight at a time.
NextClear ==
    \/ OnOpen
    \/ \E msg \in ServerHistoryMsgs : RecvInitialHistory(msg)
    \/ ServerPush
    \/ \E req \in Records : ServerCreatePush(req)
    \/ \E id \in Ids : selectRequest(id)
    \/ DeleteClick(MaxFetch)
    \/ \E id \in Ids : DeleteDone(id)
    \/ \E id \in Ids : DeleteFail(id)
    \/ ClearClick(MaxFetch)
    \/ ClearDone
    \/ ClearFail

SpecClear == Init /\ [][NextClear]_vars

\* ---------------------------------------------------------------- multipart
\* the trimmed value of a part's Content-Type header as <<type, subtype>>;
\* <<>> when the part has no such header (partContentType is undefined)
ContentTypes == {<<>>, <<"text", "plain">>, <<"image", "png">>, <<"Text", "plain">>}

\* the filename="..." of a part's Content-Disposition; "" when there is none
Filenames == {"", "a.png"}

\* a part between two boundaries; complete: it has the blank line that ends
\* its header section
Parts == [filename : Filenames, contentType : ContentTypes, complete : BOOLEAN]

\* partContentType.startsWith('text/')
startsWithText(ct) == ct # <<>> /\ ct[1] = "text"

\* filename && partContentType && !partContentType.startsWith('text/')
isBinary(part) ==
    /\ part.filename # ""
    /\ part.contentType # <<>>
    /\ ~startsWithText(part.contentType)

\* the block the loop body appends for a part: its labels and either the
\* "[binary: name, size]" line or the <pre> with the payload
block(part) ==
    [filename |-> part.filename,
     contentType |-> part.contentType,
     shown |-> IF isBinary(part) THEN "binary" ELSE "pre"]

\* renderMultipart is called with a body of up to MaxParts parts
InitMultipart ==
    /\ requests = <<>>
    /\ selectedId = None
    /\ totalCount = 0
    /\ loadedCount = 0
    /\ ws = "CONNECTING"
    /\ reconnectDelay = BaseDelay
    /\ loading = FALSE
    /\ reconnectTimer = None
    /\ detailReq = None
    /\ pendingDelete = [i \in Ids |-> 0]
    /\ pendingClear = 0
    /\ initialPending = TRUE
    /\ awaiting = <<>>
    /\ closures = 0
    /\ last = "start"
    /\ serverKept = {}
    /\ parts \in SeqsUpTo(Parts, MaxParts)
    /\ html = <<>>

\* one pass of `for (const part of parts)`
RenderPart ==
    /\ parts # <<>>
    /\ parts' = Tail(parts)
    /\ html' = IF Head(parts).complete
               THEN Append(html, block(Head(parts)))
               ELSE html                              \* sepIdx === -1: continue
    /\ UNCHANGED <<feed, loading, conn, detailReq, cmds, wire, last, serverKept>>

SpecMultipart == InitMultipart /\ [][RenderPart]_vars

\* One connection that stays open and is never asked for a page: the initial
\* history and the pushes of any server, selection and the commands.
NextCommands ==
    \/ OnOpen
    \/ \E msg \in HistoryMsgs : RecvInitialHistory(msg)
    \/ \E req \in Records : RecvNew(req)
    \/ \E id \in Ids : selectRequest(id)
    \/ DeleteClick(MaxFetch)
    \/ \E id \in Ids : DeleteDone(id)
    \/ \E id \in Ids : DeleteFail(id)
    \/ ClearClick(MaxFetch)
    \/ ClearDone
    \/ ClearFail

SpecCommands == Init /\ [][NextCommands]_vars

\* Connections that fail and are replaced, the messages of any server and
\* pagination; no selection, no commands.
NextPaging ==
    \/ OnOpen
    \/ OnError(MaxFailures)
    \/ OnClose(MaxFailures)
    \/ TimerFire
    \/ \E msg \in HistoryMsgs : RecvInitialHistory(msg)
    \/ \E msg \in HistoryMsgs : RecvPageHistory(msg)
    \/ \E req \in Records : RecvNew(req)
    \/ OnIntersect

SpecPaging == Init /\ [][NextPaging]_vars

\* The connection life cycle with up to MaxClosures consecutive failures, and
\* the handlers that run without a history message.
NextReconnect ==
    \/ OnOpen
    \/ OnError(MaxClosures)
    \/ OnClose(MaxClosures)
    \/ TimerFire
    \/ \E req \in Records : RecvNew(req)
    \/ OnIntersect

SpecReconnect == Init /\ [][NextReconnect]_vars

\* the browser fires the close event of a socket on which close() was called
CloseEvent == ws = "CLOSING" /\ OnClose(MaxClosures)

\* The same, with the scheduling the browser guarantees: a timeout that is
\* armed fires, and a socket that is closing is closed.
SpecReconnectFair ==
    Init /\ [][NextReconnect]_vars /\ WF_vars(TimerFire) /\ WF_vars(CloseEvent)

TypeOK ==
    /\ selectedId \in Ids \cup {None}
    /\ detailReq \in Ids \cup {None}
    /\ ws \in {"CONNECTING", "OPEN", "CLOSING", "CLOSED"}
    /\ loading \in BOOLEAN
    /\ Len(awaiting) \in 0..2
    /\ reconnectDelay \in BaseDelay..DelayCap

\* ================================================================ properties
\* number of records of reqs whose id is id
Occurrences(reqs, id) == Cardinality({i \in 1..Len(reqs) : reqs[i].id = id})

\* the smallest timestamp among the records of a non-empty list
MinTimestamp(reqs) ==
    CHOOSE t \in {reqs[i].timestamp : i \in 1..Len(reqs)} :
        \A i \in 1..Len(reqs) : t <= reqs[i].timestamp

IsPrefix(s, t) == Len(s) <= Len(t) /\ SubSeq(t, 1, Len(s)) = s

\* s can be obtained from t by dropping elements
RECURSIVE IsSubseq(_, _)
IsSubseq(s, t) ==
    IF s = <<>> THEN TRUE
    ELSE IF t = <<>> THEN FALSE
    ELSE IF Head(s) = Head(t) THEN IsSubseq(Tail(s), Tail(t))
    ELSE IsSubseq(s, Tail(t))

\* the records of batch, in batch order, whose id no record of reqs has
RECURSIVE Fresh(_, _)
Fresh(reqs, batch) ==
    IF batch = <<>> THEN <<>>
    ELSE IF Occurrences(reqs, Head(batch).id) = 0
         THEN <<Head(batch)>> \o Fresh(reqs, Tail(batch))
         ELSE Fresh(reqs, Tail(batch))

RECURSIVE Pow2(_)
Pow2(n) == IF n = 0 THEN 1 ELSE 2 * Pow2(n - 1)

\* a step that transmits a load_more
Transmits == Len(awaiting') > Len(awaiting)

\* a step of ws.onmessage with the history message msg
HistoryStep(msg) == RecvInitialHistory(msg) \/ RecvPageHistory(msg)

\* ---------------------------------------------------------------- C1
\* C1: in every reachable state no two records of the request list have the
\* same id, whatever the history batches contain.
C1_UniqueIds == \A id \in Ids : Occurrences(requests, id) <= 1

\* ---------------------------------------------------------------- C2
\* C2: in every reachable state loadedCount is the number of records in the
\* request list.
C2_LoadedCountIsLength == loadedCount = Len(requests)

\* ---------------------------------------------------------------- C3
\* C3: in every reachable state totalCount >= loadedCount.
C3_TotalAtLeastLoaded == totalCount >= loadedCount

\* ---------------------------------------------------------------- C4
\* C4: at any time at most one transmitted load_more awaits its history
\* response.
C4_OneOutstanding == Len(awaiting) <= 1

\* ---------------------------------------------------------------- C5
\* C5: whenever load_more is transmitted, its `before` cursor is the minimum
\* timestamp over the records loaded at that moment.
C5_CursorIsOldest ==
    [][Transmits => awaiting'[Len(awaiting')].before = MinTimestamp(requests)]_vars

\* ---------------------------------------------------------------- C6
\* C6: loadMore goes on to send (sets loading, transmits load_more) only in a
\* state where loadedCount < totalCount and the list is not empty; with
\* loadedCount = totalCount a visible sentinel sends nothing.
C6_SendOnlyWhenMore ==
    [][(Transmits \/ (~loading /\ loading'))
         => (loadedCount < totalCount /\ Len(requests) > 0 /\ ~loading)]_vars

\* the sentinel became visible on an open socket with everything loaded, and
\* nothing was sent
C6_Witness ==
    /\ last = "scroll_idle"
    /\ ws = "OPEN"
    /\ ~loading
    /\ Len(requests) > 0
    /\ loadedCount = totalCount
    /\ awaiting = <<>>

\* ---------------------------------------------------------------- C7
\* C7 as stated: the delay the reconnect waits after n consecutive closures
\* is min(1000 * 2^n, 30000).
C7_DelayAfterNClosures ==
    reconnectTimer # None => reconnectTimer = Min(BaseDelay * Pow2(closures), DelayCap)

\* C7 amended: the timer armed by the n-th consecutive closure (n >= 1) waits
\* min(1000 * 2^(n-1), 30000) ms; once that timer has fired reconnectDelay is
\* min(1000 * 2^n, 30000); while the socket is open there is no closure to
\* count and reconnectDelay is 1000.
C7_Backoff ==
    /\ reconnectTimer # None =>
          /\ ws = "CLOSED"
          /\ closures >= 1
          /\ reconnectTimer = Min(BaseDelay * Pow2(closures - 1), DelayCap)
          /\ reconnectDelay = reconnectTimer
    /\ ws \in {"CONNECTING", "CLOSING"} =>
          reconnectDelay = Min(BaseDelay * Pow2(closures), DelayCap)
    /\ ws = "OPEN" => (closures = 0 /\ reconnectDelay = BaseDelay)

\* the sixth consecutive closure waits the capped delay
C7_Witness == closures = 6 /\ reconnectTimer = DelayCap

\* ---------------------------------------------------------------- C8
\* C8: a `new` message whose record id is already in the list changes
\* nothing; one whose id is not in the list prepends the record once and adds
\* one to each count, after which the id is in the list, so that a second
\* delivery of the same record is of the first kind.
C8_NewIdempotent ==
    [][(last' \in {"new", "new_known"}) =>
         \A req \in Records : RecvNew(req) =>
            /\ IF Occurrences(requests, req.id) > 0
               THEN UNCHANGED <<requests, totalCount, loadedCount, selectedId, loading>>
               ELSE /\ Len(requests') = Len(requests) + 1
                    /\ totalCount' = totalCount + 1
                    /\ loadedCount' = loadedCount + 1
            /\ Occurrences(requests', req.id) = Occurrences(requests, req.id)
                  + (IF Occurrences(requests, req.id) = 0 THEN 1 ELSE 0)]_vars

\* a `new` message for a record already in the list was processed
C8_Witness ==
    /\ last = "new_known"
    /\ Len(requests) > 0
    /\ C1_UniqueIds

\* ---------------------------------------------------------------- C9
\* C9: a `new` message for an unknown record puts it at the front, ahead of
\* all earlier records in their old order; a history message keeps the list
\* it found as a prefix of the result; no other step inserts or reorders.
C9_Ordering ==
    [][/\ (last' = "new") =>
            \A req \in Records :
               (RecvNew(req) /\ Occurrences(requests, req.id) = 0)
                  => requests' = <<req>> \o requests
       /\ (last' \in {"history", "page"}) => IsPrefix(requests, requests')
       /\ (last' \notin {"history", "page", "new"}) => IsSubseq(requests', requests)]_vars

\* a `new` record was put in front of records already present
C9_Witness ==
    /\ last = "new"
    /\ Len(requests) >= 2
    /\ requests[1].id # requests[2].id

\* ---------------------------------------------------------------- C10
\* C10: for the list of every reachable state and every history message
\* (batch, total), handleHistory leaves the old list followed by the batch
\* records whose id was not present, in batch order, totalCount = total and
\* loadedCount = the new length; applied to its own result with the same
\* message it changes nothing.
C10_IngestHistory ==
    \A msg \in HistoryMsgs :
        LET after == afterHistory(requests, msg)
            fresh == Fresh(requests, msg.requests)
        IN /\ after.requests = requests \o fresh
           /\ after.totalCount = msg.total
           /\ after.loadedCount = Len(requests) + Len(fresh)
           /\ afterHistory(after.requests, msg) = after

\* a page response added a record behind one already present
C10_Witness ==
    /\ last = "page"
    /\ Len(requests) = 2
    /\ requests[1].id # requests[2].id
    /\ loadedCount = 2
    /\ totalCount = 3

\* ---------------------------------------------------------------- C11
\* C11: in every reachable state selectedId is null or the id of a record in
\* the list, whatever the interleaving of selections, history and new
\* messages, and completions of delete and clear.
C11_SelectedIsPresent ==
    selectedId = None \/ \E i \in 1..Len(requests) : requests[i].id = selectedId

\* a record is selected while the delete of another one, requested from the
\* detail panel it was shown in, is still in flight
C11_Witness ==
    /\ selectedId # None
    /\ \E id \in Ids \ {selectedId} : pendingDelete[id] > 0
    /\ Len(requests) >= 2

\* ---------------------------------------------------------------- C12
\* C12: a step that takes a record out of the list is the completion of a
\* clear or delete request that was in flight (its fetch was sent by an
\* earlier step and has now resolved), and a delete takes out only the record
\* it names; a history or new message keeps every record it found, in order;
\* a command whose fetch is rejected leaves the list as it was.
C12_RemovalOnlyByCommand ==
    [][/\ (\E id \in Ids : Occurrences(requests', id) < Occurrences(requests, id)) =>
            \/ /\ pendingClear > 0
               /\ pendingClear' = pendingClear - 1
            \/ \E id \in Ids :
                  /\ pendingDelete[id] > 0
                  /\ pendingDelete'[id] = pendingDelete[id] - 1
                  /\ \A other \in Ids \ {id} :
                        Occurrences(requests', other) = Occurrences(requests, other)
       /\ (last' \in {"history", "page", "new", "new_known"}) => IsSubseq(requests, requests')
       /\ (last' = "fail") => requests' = requests]_vars

\* a command's fetch was rejected and the records are still in the list
C12_Witness ==
    /\ last = "fail"
    /\ Len(requests) > 0
    /\ PendingFetches = 0

\* ---------------------------------------------------------------- C13
\* C13: an inbound message that cannot be parsed, has an unknown type, or is
\* a history message without its requests array leaves the list, totalCount,
\* loadedCount, selectedId and loading unchanged.
C13_MalformedDropped ==
    [][(last' \in Ignored \cup {"history_no_requests"}) =>
          UNCHANGED <<requests, totalCount, loadedCount, selectedId, loading>>]_vars

\* ---------------------------------------------------------------- C14
\* C14: the removal that completes a delete of record id takes the record out
\* and subtracts one from each count when the record is in the list; when the
\* record is no longer in the list it leaves the list, totalCount and
\* loadedCount unchanged.
C14_RemoveOnlyIfPresent ==
    [][\A id \in Ids : DeleteDone(id) =>
          IF Occurrences(requests, id) > 0
          THEN /\ Occurrences(requests', id) = 0
               /\ totalCount' = totalCount - 1
               /\ loadedCount' = loadedCount - 1
          ELSE UNCHANGED <<requests, totalCount, loadedCount>>]_vars

\* ---------------------------------------------------------------- C15
\* C15: the removal that completes a delete of record id clears selectedId
\* only if selectedId is id; with another record selected, selectedId stays.
C15_ClearsOnlyMatchingSelection ==
    [][\A id \in Ids : (DeleteDone(id) /\ selectedId # id) => selectedId' = selectedId]_vars

C17_Reconnects ==
    /\ [](ws = "CLOSED" => reconnectTimer # None)
    /\ (ws = "CLOSING") ~> (ws = "CLOSED")
    /\ (ws = "CLOSED") ~> (ws = "CONNECTING")

\* a connection attempt that follows the closure of a socket
C17_Witness ==
    /\ ws = "CONNECTING"
    /\ closures = 1
    /\ reconnectTimer = None
    /\ reconnectDelay = 2 * BaseDelay

\* ---------------------------------------------------------------- C18
\* C18: every record the server created after its last delete-all, pushed to
\* the client and has not been asked to delete is in the local list, also
\* after the local reset of a clear has run, and totalCount is at least the
\* number of these records.
C18_NoGapsUnderClear ==
    /\ \A id \in serverKept : \E i \in 1..Len(requests) : requests[i].id = id
    /\ totalCount >= Cardinality(serverKept)

\* ---------------------------------------------------------------- C19
\* C19: every rendered part is shown as inline text exactly when it has no
\* filename or its content type starts with text/, and as opaque binary
\* otherwise, a part with a filename and no Content-Type included.
C19_Classification ==
    \A i \in 1..Len(html) :
        (html[i].shown = "pre") <=>
            (html[i].filename = "" \/ startsWithText(html[i].contentType))

\* ---------------------------------------------------------------- C20
\* C20: after every step either the socket held by `ws` is live (connecting,
\* open or closing) and no reconnect timer is pending, or it is closed and
\* exactly one timer is pending; connect() is invoked only by that timer,
\* with the earlier socket closed; a timer is armed only by a live socket
\* that closes, with no timer pending.
C20_OneSocketOrTimer ==
    [][/\ (reconnectTimer' # None) <=> (ws' = "CLOSED")
       /\ (ws' = "CONNECTING" /\ ws # "CONNECTING") =>
             (ws = "CLOSED" /\ reconnectTimer # None /\ reconnectTimer' = None)
       /\ (reconnectTimer' # None /\ reconnectTimer' # reconnectTimer) =>
             (reconnectTimer = None /\ ws # "CLOSED")]_vars

\* the third socket in a row: two closed before it, each replaced by one timer
C20_Witness ==
    /\ ws = "CONNECTING"
    /\ closures >= 2
    /\ reconnectTimer = None

\* ---------------------------------------------------------------- C21
\* C21: in every reachable state loading is true only if the socket is open
\* and a load_more transmitted on it awaits its history response; loadMore
\* leaves loading false when the socket is connecting or closed.
C21_LoadingMeansAwaiting ==
    loading => (ws = "OPEN" /\ awaiting # <<>>)
====
